---- MODULE Spec2Model ----
(***************************************************************************)
(* Model of the free-physical-slot page of EliasDB                         *)
(* (storage/slotting/pageview/freephysicalslotpage.go).                    *)
(*                                                                         *)
(* A page is a view on a fixed-size record.  The record holds a 16-bit     *)
(* count of allocated slotinfos and an array of slotinfo rows, each a      *)
(* location followed by a 32-bit size.  The page object adds three fields: *)
(* maxSlots, maxAcceptableWaste and the in-memory sizeCache.               *)
(*                                                                         *)
(* TLC's integers are 32-bit signed, so a Go uint32 is held as two 16-bit  *)
(* limbs <<hi, lo>> and its arithmetic is written out modulo 2^32.  A Go   *)
(* int (64-bit) result is held as sign and magnitude.                      *)
(***************************************************************************)
EXTENDS Integers, FiniteSets, Sequences, TLC

-----------------------------------------------------------------------------
(* Bounds of the model.                                                    *)

\* Rows 0 .. RowLimit-1 are the rows the callers write to; the small
\* records have exactly RowLimit rows, so they can be filled completely.
RowLimit == 2

\* The callers stop breaking the claim/release preconditions once the
\* header count is MaxDrift away (modulo 2^16) from the number of rows in use.
MaxDrift == 1

\* The caller that claims rows through FirstFreeSlotInfo stops after
\* MaxClaims claims.
MaxClaims == 8

-----------------------------------------------------------------------------
(* Fixed-width arithmetic.                                                 *)

Two16 == 2^16

\* uint16 arithmetic wraps modulo 2^16.
U16(n) == n % Two16

\* A uint32 as limbs <<hi, lo>>; U32(n) converts a natural number below 2^31.
U32(n) == <<n \div Two16, n % Two16>>

Zero32 == <<0, 0>>

MaxU32 == <<Two16 - 1, Two16 - 1>>

UInt32 == (0 .. Two16 - 1) \X (0 .. Two16 - 1)

\* a - b on uint32: wraps modulo 2^32 when a < b.
Sub32(a, b) ==
    LET lo     == a[2] - b[2]
        borrow == IF lo < 0 THEN 1 ELSE 0
    IN  <<(a[1] - b[1] - borrow) % Two16, lo % Two16>>

\* a + b on uint32: wraps modulo 2^32.
Add32(a, b) ==
    LET lo    == a[2] + b[2]
        carry == IF lo >= Two16 THEN 1 ELSE 0
    IN  <<(a[1] + b[1] + carry) % Two16, lo % Two16>>

Lt32(a, b) == a[1] < b[1] \/ (a[1] = b[1] /\ a[2] < b[2])

Gt32(a, b) == Lt32(b, a)

Ge32(a, b) == ~Lt32(a, b)

Max32(a, b) == IF Gt32(a, b) THEN a ELSE b

\* A Go int as sign and magnitude (the magnitudes met here are below 2^32).
\* int(x) of an unsigned x, and the negation -int(x); -0 is 0.
IntOf(x) == [neg |-> FALSE, mag |-> x]

NegInt(x) == [neg |-> x # Zero32, mag |-> x]

-----------------------------------------------------------------------------
(* Layout constants.  Those of the packages file, view and util are       *)
(* declared outside freephysicalslotpage.go; their values follow the       *)
(* documented record layout of EliasDB.                                    *)

\* file.SIZE_SHORT
SIZE_SHORT == 2

\* view.OFFSET_DATA: header (short) plus the next and previous page pointers.
VIEW_OFFSET_DATA == 18

\* util.LOCATION_SIZE
LOCATION_SIZE == 8

\* util.SIZE_INFO_SIZE
SIZE_INFO_SIZE == 4

\* util.MAX_AVAILABLE_SIZE_DIFFERENCE
MAX_AVAILABLE_SIZE_DIFFERENCE == 65534

\* view.VIEW_PAGE_HEADER and view.TYPE_FREE_PHYSICAL_SLOT_PAGE
VIEW_PAGE_HEADER == 6544

TYPE_FREE_PHYSICAL_SLOT_PAGE == 4

\* view.TYPE_FREE_LOGICAL_SLOT_PAGE, the tag of another kind of page
TYPE_FREE_LOGICAL_SLOT_PAGE == 3

OFFSET_COUNT == VIEW_OFFSET_DATA

OFFSET_DATA == OFFSET_COUNT + SIZE_SHORT

SLOT_INFO_SIZE == LOCATION_SIZE + SIZE_INFO_SIZE

OPTIMAL_WASTE_MARGIN == 128

OptimalWasteMargin32 == U32(OPTIMAL_WASTE_MARGIN)

MaxAvailableSizeDifference32 == U32(MAX_AVAILABLE_SIZE_DIFFERENCE)

-----------------------------------------------------------------------------
(* State.                                                                  *)

VARIABLES
    header,              \* record: the 16-bit word at offset 0
    constructed,         \* NewFreePhysicalSlotPage returned a page object
    dataLen,             \* len(record.Data()) of the wrapped record
    count,               \* record: uint16 at OFFSET_COUNT
    size,                \* record: the size field of every row
    loc,                 \* record: the location field of every row
    maxSlots,            \* page field maxSlots
    maxAcceptableWaste,  \* page field maxAcceptableWaste
    sizeCache,           \* page field sizeCache
    fresh,               \* history: the record was all zero at construction
    written,             \* history: per row, the last call that wrote it
    last                 \* history: the last call, its arguments and result,
                         \* and the calls counted for a counting caller

vars == <<header, constructed, dataLen, count, size, loc, maxSlots, maxAcceptableWaste,
          sizeCache, fresh, written, last>>

\* The record and the cache as one value, so that a method can be written
\* as a function from page to page.
Page == [count |-> count, size |-> size, loc |-> loc, maxSlots |-> maxSlots,
         maxAcceptableWaste |-> maxAcceptableWaste, sizeCache |-> sizeCache]

-----------------------------------------------------------------------------
(* Row arithmetic and record access.                                       *)

slotinfoToOffset(slotinfo) == U16(OFFSET_DATA + U16(slotinfo * SLOT_INFO_SIZE))

offsetToSlotinfo(offset) == U16(offset - OFFSET_DATA) \div SLOT_INFO_SIZE

\* Record.ReadUInt32 / WriteUInt32 at the address of a row's size field.
RowOfAddress(addr) == (addr - OFFSET_DATA) \div SLOT_INFO_SIZE

ReadUInt32(p, addr) == p.size[RowOfAddress(addr)]

WriteUInt32(p, addr, v) == [p EXCEPT !.size[RowOfAddress(addr)] = v]

\* SlotInfoPage.SetSlotInfo: writes the location of the row at offset.
SetSlotInfo(p, offset, recordID, off) ==
    [p EXCEPT !.loc[RowOfAddress(offset)] = <<recordID, off>>]

FreeSlotCount(p) == p.count

-----------------------------------------------------------------------------
(* Size read and write.                                                    *)

\* FreeSlotSize, the value returned: the cache entry, or what the record
\* holds when the cache entry is 0.
FreeSlotSizeValue(p, offset) ==
    LET slotinfo == offsetToSlotinfo(offset)
    IN  IF p.sizeCache[slotinfo] = Zero32
        THEN ReadUInt32(p, U16(offset + LOCATION_SIZE))
        ELSE p.sizeCache[slotinfo]

\* A faulty variant of FreeSlotSize that caches 1 for a vacant row.
FreeSlotSizePageCachesOne(p, offset) ==
    LET slotinfo == offsetToSlotinfo(offset)
        stored   == ReadUInt32(p, U16(offset + LOCATION_SIZE))
    IN  IF p.sizeCache[slotinfo] = Zero32
        THEN [p EXCEPT !.sizeCache[slotinfo] =
                           IF stored = Zero32 THEN U32(1) ELSE stored]
        ELSE p

\* FreeSlotSize, the page it leaves: a cache entry of 0 is filled from the
\* record.
FreeSlotSizePage(p, offset) ==
    LET slotinfo == offsetToSlotinfo(offset)
    IN  IF p.sizeCache[slotinfo] = Zero32
        THEN [p EXCEPT !.sizeCache[slotinfo] =
                           ReadUInt32(p, U16(offset + LOCATION_SIZE))]
        ELSE p

FreeSlotSize(p, offset) ==
    [page |-> FreeSlotSizePage(p, offset), ret |-> FreeSlotSizeValue(p, offset)]

\* Faulty variants of SetFreeSlotSize: one that leaves the cache alone, one
\* that leaves it alone when the size is 0.
SetFreeSlotSizeRecordOnly(p, offset, sz) ==
    WriteUInt32(p, U16(offset + LOCATION_SIZE), sz)

SetFreeSlotSizeSkipsZero(p, offset, sz) ==
    LET slotinfo == offsetToSlotinfo(offset)
        p1       == IF sz = Zero32 THEN p
                    ELSE [p EXCEPT !.sizeCache[slotinfo] = sz]
    IN  WriteUInt32(p1, U16(offset + LOCATION_SIZE), sz)

SetFreeSlotSize(p, offset, sz) ==
    LET slotinfo == offsetToSlotinfo(offset)
        p1       == [p EXCEPT !.sizeCache[slotinfo] = sz]
    IN  WriteUInt32(p1, U16(offset + LOCATION_SIZE), sz)

-----------------------------------------------------------------------------
(* Claim and release of a row.                                             *)

\* Faulty variants of AllocateSlotInfo: one that does not write the count
\* back, one that does not write the initial size.
AllocateSlotInfoNoCount(p, slotinfo) ==
    LET offset == slotinfoToOffset(slotinfo)
        p1     == SetFreeSlotSize(p, offset, U32(1))
        p2     == SetSlotInfo(p1, offset, 1, 1)
    IN  [page |-> p2, ret |-> offset]

AllocateSlotInfoNoSize(p, slotinfo) ==
    LET offset == slotinfoToOffset(slotinfo)
        p2     == SetSlotInfo(p, offset, 1, 1)
        p3     == [p2 EXCEPT !.count = U16(FreeSlotCount(p2) + 1)]
    IN  [page |-> p3, ret |-> offset]

AllocateSlotInfo(p, slotinfo) ==
    LET offset == slotinfoToOffset(slotinfo)
        p1     == SetFreeSlotSize(p, offset, U32(1))
        p2     == SetSlotInfo(p1, offset, 1, 1)
        p3     == [p2 EXCEPT !.count = U16(FreeSlotCount(p2) + 1)]
    IN  [page |-> p3, ret |-> offset]

\* Faulty variants of ReleaseSlotInfo: one that does not write the count
\* back, one that leaves the count alone when the row is already vacant.
ReleaseSlotInfoNoCount(p, slotinfo) ==
    LET offset == slotinfoToOffset(slotinfo)
        p1     == SetFreeSlotSize(p, offset, Zero32)
        p2     == SetSlotInfo(p1, offset, 0, 0)
    IN  [page |-> p2, ret |-> offset]

ReleaseSlotInfoChecked(p, slotinfo) ==
    LET offset == slotinfoToOffset(slotinfo)
        vacant == ReadUInt32(p, U16(offset + LOCATION_SIZE)) = Zero32
        p1     == SetFreeSlotSize(p, offset, Zero32)
        p2     == SetSlotInfo(p1, offset, 0, 0)
        p3     == [p2 EXCEPT !.count = IF vacant THEN FreeSlotCount(p2)
                                       ELSE U16(FreeSlotCount(p2) - 1)]
    IN  [page |-> p3, ret |-> offset]

ReleaseSlotInfo(p, slotinfo) ==
    LET offset == slotinfoToOffset(slotinfo)
        p1     == SetFreeSlotSize(p, offset, Zero32)
        p2     == SetSlotInfo(p1, offset, 0, 0)
        p3     == [p2 EXCEPT !.count = U16(FreeSlotCount(p2) - 1)]
    IN  [page |-> p3, ret |-> offset]

-----------------------------------------------------------------------------
(* Scans.  Both scans read row i through FreeSlotSize, which changes only  *)
(* the cache entry of row i; the rows read later are therefore read from   *)
(* the page as it was when the scan began, and the page the scan leaves is *)
(* the page with the cache entries of the rows 0 .. k it read filled.      *)

Scanned(p, k) ==
    [p EXCEPT !.sizeCache =
        [s \in 0 .. p.maxSlots - 1 |->
            IF s <= k THEN FreeSlotSizeValue(p, slotinfoToOffset(s))
                      ELSE p.sizeCache[s]]]

\* A faulty variant of isAllocatedSlot that looks at the cache alone.
isAllocatedSlotCacheOnly(p, slotinfo) ==
    p.sizeCache[offsetToSlotinfo(slotinfoToOffset(slotinfo))] # Zero32

isAllocatedSlot(p, slotinfo) ==
    FreeSlotSizeValue(p, slotinfoToOffset(slotinfo)) # Zero32

\* The loop of FirstFreeSlotInfo from row i on: the row it returns at, or
\* -1 when it runs to the end.
RECURSIVE FirstFreeLoop(_, _)
FirstFreeLoop(p, i) ==
    IF i >= p.maxSlots THEN -1
    ELSE IF ~isAllocatedSlot(p, i) THEN i
    ELSE FirstFreeLoop(p, i + 1)

FirstFreeSlotInfoAt(p, i) ==
    IF i # -1
    THEN [page |-> Scanned(p, i), ret |-> IntOf(U32(i))]
    ELSE [page |-> Scanned(p, p.maxSlots - 1), ret |-> NegInt(U32(1))]

\* A faulty variant of FirstFreeSlotInfo whose loop begins at row 1.
FirstFreeSlotInfoFromOne(p) == FirstFreeSlotInfoAt(p, FirstFreeLoop(p, 1))

FirstFreeSlotInfo(p) == FirstFreeSlotInfoAt(p, FirstFreeLoop(p, 0))

\* The body of FindSlot's loop for row i, whose size is slotinfoSize and
\* whose waste is waste.  st holds the loop's variables, and at, the row of
\* the early return (-1 while there was none).  The test waste >= 0 holds
\* of every uint32.
\* A faulty variant of the body with an optimal margin of 1024 bytes.
FindSlotRowWideMargin(i, slotinfoSize, waste, st) ==
    IF Lt32(waste, U32(1024))
    THEN [at |-> i, bestSlot |-> st.bestSlot,
          bestSlotWaste |-> st.bestSlotWaste,
          maxSize |-> Max32(slotinfoSize, st.maxSize)]
    ELSE IF Gt32(st.bestSlotWaste, waste)
    THEN [at |-> -1, bestSlot |-> i, bestSlotWaste |-> waste,
          maxSize |-> Max32(slotinfoSize, st.maxSize)]
    ELSE [at |-> -1, bestSlot |-> st.bestSlot,
          bestSlotWaste |-> st.bestSlotWaste,
          maxSize |-> Max32(slotinfoSize, st.maxSize)]

FindSlotRow(i, slotinfoSize, waste, st) ==
    IF Lt32(waste, OptimalWasteMargin32)
    THEN [at |-> i, bestSlot |-> st.bestSlot,
          bestSlotWaste |-> st.bestSlotWaste,
          maxSize |-> Max32(slotinfoSize, st.maxSize)]
    ELSE IF Gt32(st.bestSlotWaste, waste)
    THEN [at |-> -1, bestSlot |-> i, bestSlotWaste |-> waste,
          maxSize |-> Max32(slotinfoSize, st.maxSize)]
    ELSE [at |-> -1, bestSlot |-> st.bestSlot,
          bestSlotWaste |-> st.bestSlotWaste,
          maxSize |-> Max32(slotinfoSize, st.maxSize)]

FindSlotSized(minSize, i, slotinfoSize, st) ==
    FindSlotRow(i, slotinfoSize, Sub32(slotinfoSize, minSize), st)

FindSlotBody(p, minSize, i, st) ==
    FindSlotSized(minSize, i, FreeSlotSizeValue(p, slotinfoToOffset(i)), st)

\* FindSlot's loop from row i on, entered with the loop's variables st.
RECURSIVE FindSlotLoop(_, _, _, _)
FindSlotLoop(p, minSize, i, st) ==
    IF st.at # -1 \/ i >= p.maxSlots THEN st
    ELSE FindSlotLoop(p, minSize, i + 1, FindSlotBody(p, minSize, i, st))

\* What FindSlot returns after its loop ended in st.  found tells which
\* return statement was taken (a row, or -maxSize); the caller sees ret only.
FindSlotReturn(p, st) ==
    IF st.at # -1
    THEN [page |-> Scanned(p, st.at), ret |-> IntOf(U32(st.at)),
          found |-> TRUE]
    ELSE IF st.bestSlot # -1
            /\ Lt32(st.bestSlotWaste, p.maxAcceptableWaste)
            /\ Lt32(st.bestSlotWaste, MaxAvailableSizeDifference32)
    THEN [page |-> Scanned(p, p.maxSlots - 1),
          ret |-> IntOf(U32(st.bestSlot)), found |-> TRUE]
    ELSE [page |-> Scanned(p, p.maxSlots - 1), ret |-> NegInt(st.maxSize),
          found |-> FALSE]

FindSlot(p, minSize) ==
    FindSlotReturn(p,
        FindSlotLoop(p, minSize, 0,
                     [at |-> -1, bestSlot |-> -1,
                      bestSlotWaste |-> Add32(p.maxAcceptableWaste, U32(1)),
                      maxSize |-> Zero32]))

-----------------------------------------------------------------------------
(* Construction.                                                           *)

\* Record.ReadInt16: the 16-bit word w read as a signed number.
ReadInt16(w) == IF w >= 2^15 THEN w - Two16 ELSE w

\* A faulty variant of checkFreePhysicalSlotPageMagic that reports a wrong
\* header through its result, which NewFreePhysicalSlotPage does not look at.
checkFreePhysicalSlotPageMagicNoPanic(w) ==
    IF ReadInt16(w) = VIEW_PAGE_HEADER + TYPE_FREE_PHYSICAL_SLOT_PAGE
    THEN "true" ELSE "false"

\* checkFreePhysicalSlotPageMagic on a record whose word at offset 0 is w:
\* it returns true or panics.
checkFreePhysicalSlotPageMagic(w) ==
    IF ReadInt16(w) = VIEW_PAGE_HEADER + TYPE_FREE_PHYSICAL_SLOT_PAGE
    THEN "true" ELSE "panic"

\* A faulty variant of the page fields with a size cache that is not zeroed.
NewFreePhysicalSlotPageFieldsStaleCache(len) ==
    LET n == (len - OFFSET_DATA) \div SLOT_INFO_SIZE
    IN  [maxSlots           |-> U16(n),
         maxAcceptableWaste |-> U32(len \div 4),
         sizeCache          |-> [s \in 0 .. n - 1 |-> U32(1)]]

\* The page fields NewFreePhysicalSlotPage computes from the record length.
NewFreePhysicalSlotPageFields(len) ==
    LET n == (len - OFFSET_DATA) \div SLOT_INFO_SIZE
    IN  [maxSlots           |-> U16(n),
         maxAcceptableWaste |-> U32(len \div 4),
         sizeCache          |-> [s \in 0 .. n - 1 |-> Zero32]]

\* No page object: what is left when the construction panicked.
NoPage == [maxSlots |-> 0, maxAcceptableWaste |-> Zero32, sizeCache |-> <<>>]

\* NewFreePhysicalSlotPage on a record of len bytes with the word w at
\* offset 0: ok tells whether a page object was returned.
NewFreePhysicalSlotPage(w, len) ==
    IF checkFreePhysicalSlotPageMagic(w) = "panic"
    THEN [ok |-> FALSE, page |-> NoPage]
    ELSE [ok |-> TRUE, page |-> NewFreePhysicalSlotPageFields(len)]

\* The rows of a record some earlier page object has written and left:
\* row 0 vacant, then slots of 500, 50 and 200 bytes.
StoredSizes == <<Zero32, U32(500), U32(50), U32(200)>>

StoredSize(r) == IF r < Len(StoredSizes) THEN StoredSizes[r + 1] ELSE Zero32

\* A record of len bytes, all zero behind the header: a record just
\* allocated.
FreshRecord(len) ==
    LET n == (len - OFFSET_DATA) \div SLOT_INFO_SIZE
    IN  [len |-> len, count |-> 0, size |-> [r \in 0 .. n - 1 |-> Zero32],
         loc |-> [r \in 0 .. n - 1 |-> <<0, 0>>]]

\* A record of len bytes that holds the stored rows and their count.
StoredRecord(len) ==
    LET n == (len - OFFSET_DATA) \div SLOT_INFO_SIZE
    IN  [len |-> len,
         count |-> Cardinality({r \in 0 .. n - 1 : StoredSize(r) # Zero32}),
         size |-> [r \in 0 .. n - 1 |-> StoredSize(r)],
         loc |-> [r \in 0 .. n - 1 |->
                     IF StoredSize(r) # Zero32 THEN <<1, r + 1>> ELSE <<0, 0>>]]

\* The records the pages of the model are constructed on.  The small ones
\* have exactly RowLimit rows (maxAcceptableWaste below
\* OPTIMAL_WASTE_MARGIN), one fresh and one stored; the large one is a
\* stored record of 600 bytes (48 rows, maxAcceptableWaste 150).
SmallRecords == {FreshRecord(OFFSET_DATA + RowLimit * SLOT_INFO_SIZE),
                 StoredRecord(OFFSET_DATA + RowLimit * SLOT_INFO_SIZE)}

Records == SmallRecords \cup {StoredRecord(600)}

\* The length of a record whose last rows lie behind byte 2^16, where the
\* uint16 offset of a row has wrapped: 65576 bytes, 5463 rows.
LargeRecordLen ==
    OFFSET_DATA + (Two16 \div SLOT_INFO_SIZE + 2) * SLOT_INFO_SIZE

\* A call as recorded in last.  vac: the row was vacant before the call;
\* base: the count before the call; pair: the call is a ReleaseSlotInfo
\* that directly follows an AllocateSlotInfo of the same, then vacant, row;
\* pbase: the count before that AllocateSlotInfo.  counted: the caller
\* counts its calls; claims, releases: the AllocateSlotInfo and
\* ReleaseSlotInfo calls it made since the construction.
CallRecord(op, row, arg, ret, counted, claims, releases) ==
    [op |-> op, row |-> row, arg |-> arg, ret |-> ret, found |-> FALSE,
     vac |-> FALSE, base |-> 0, pair |-> FALSE, pbase |-> 0,
     counted |-> counted, claims |-> claims, releases |-> releases]

Call(op, row, arg, ret) ==
    CallRecord(op, row, arg, ret, last.counted,
               IF last.counted /\ op = "AllocateSlotInfo"
               THEN last.claims + 1 ELSE last.claims,
               IF last.counted /\ op = "ReleaseSlotInfo"
               THEN last.releases + 1 ELSE last.releases)

\* The words found at offset 0 of a record: the tag of a
\* free-physical-slot page, the tag of another kind of page, nothing, and a
\* word that reads as a negative number.
Headers == {VIEW_PAGE_HEADER + TYPE_FREE_PHYSICAL_SLOT_PAGE,
            VIEW_PAGE_HEADER + TYPE_FREE_LOGICAL_SLOT_PAGE,
            0, Two16 - 1}

InitOn(records, counted) ==
    \E rec \in records, w \in Headers :
        LET new  == NewFreePhysicalSlotPage(w, rec.len)
            page == new.page
        IN  /\ header = w
            /\ constructed = new.ok
            /\ dataLen = rec.len
            /\ count = rec.count
            /\ size = rec.size
            /\ loc = rec.loc
            /\ maxSlots = page.maxSlots
            /\ maxAcceptableWaste = page.maxAcceptableWaste
            /\ sizeCache = page.sizeCache
            /\ fresh = (rec.count = 0)
            /\ written = [r \in {x \in 0 .. RowLimit - 1 : x < page.maxSlots}
                              |-> [op |-> "none", val |-> Zero32]]
            /\ last = CallRecord("NewFreePhysicalSlotPage", -1, Zero32,
                                 IntOf(Zero32), counted, 0, 0)

Init == InitOn(Records, FALSE)

InitSmall == InitOn(SmallRecords, FALSE)

InitLarge == InitOn({FreshRecord(LargeRecordLen)}, FALSE)

\* A caller that counts its calls, on a record that is all zero.
InitClaim ==
    InitOn({FreshRecord(OFFSET_DATA + RowLimit * SLOT_INFO_SIZE)}, TRUE)

-----------------------------------------------------------------------------
(* The calls.                                                              *)

\* The rows the callers name, and the sizes they pass.
Rows == {r \in 0 .. RowLimit - 1 : r < maxSlots}

SizeInputs == {Zero32, U32(500), MaxU32}

\* minSize of FindSlot: 40, 360 and 400 bytes, 2^32 - 130 and 2^32 - 1.
MinSizeInputs ==
    {U32(40), U32(360), U32(400), Sub32(Zero32, U32(130)), MaxU32}

Install(p) ==
    /\ count' = p.count
    /\ size' = p.size
    /\ loc' = p.loc
    /\ sizeCache' = p.sizeCache
    /\ UNCHANGED <<header, constructed, dataLen, maxSlots,
                   maxAcceptableWaste, fresh>>

\* (In the calls below, \E res \in {...} names the one result of a method.
\* A method is called on a page object, so there are no calls after a
\* construction that panicked.)

\* The call op wrote val to the size of row r.
Wrote(r, op, val) == written' = [written EXCEPT ![r] = [op |-> op, val |-> val]]

\* The number of rows in use: those whose size field is not 0.
InUse(sz) == Cardinality({r \in DOMAIN sz : sz[r] # Zero32})

CallFreeSlotSize(r) ==
    constructed /\ \E res \in {FreeSlotSize(Page, slotinfoToOffset(r))} :
        /\ Install(res.page)
        /\ UNCHANGED written
        /\ last' = Call("FreeSlotSize", r, Zero32, IntOf(res.ret))

CallSetFreeSlotSize(r, s) ==
    constructed /\ \E page \in {SetFreeSlotSize(Page, slotinfoToOffset(r), s)} :
        /\ Install(page)
        /\ Wrote(r, "SetFreeSlotSize", s)
        /\ last' = Call("SetFreeSlotSize", r, s, IntOf(Zero32))

CallAllocateSlotInfo(r) ==
    constructed /\ \E res \in {AllocateSlotInfo(Page, r)} :
        /\ Install(res.page)
        /\ Wrote(r, "AllocateSlotInfo", U32(1))
        /\ last' = [Call("AllocateSlotInfo", r, Zero32, IntOf(U32(res.ret)))
                       EXCEPT !.vac = (size[r] = Zero32), !.base = count]

CallReleaseSlotInfo(r) ==
    LET pair == last.op = "AllocateSlotInfo" /\ last.row = r /\ last.vac
    IN  constructed /\ \E res \in {ReleaseSlotInfo(Page, r)} :
            /\ Install(res.page)
            /\ Wrote(r, "ReleaseSlotInfo", Zero32)
            /\ last' = [Call("ReleaseSlotInfo", r, Zero32,
                             IntOf(U32(res.ret)))
                           EXCEPT !.vac = (size[r] = Zero32), !.base = count,
                                  !.pair = pair,
                                  !.pbase = IF pair THEN last.base ELSE 0]

CallFirstFreeSlotInfo ==
    constructed /\ \E res \in {FirstFreeSlotInfo(Page)} :
        /\ Install(res.page)
        /\ UNCHANGED written
        /\ last' = Call("FirstFreeSlotInfo", -1, Zero32, res.ret)

CallFindSlot(minSize) ==
    constructed /\ \E res \in {FindSlot(Page, minSize)} :
        /\ Install(res.page)
        /\ UNCHANGED written
        /\ last' = [Call("FindSlot", -1, minSize, res.ret)
                       EXCEPT !.found = res.found]

\* The header count is at most MaxDrift away from the number of rows in use.
DriftBounded ==
    LET d == U16(count - InUse(size))
    IN  d <= MaxDrift \/ d >= Two16 - MaxDrift

\* Any caller: every method on every row, preconditions kept or not.
\* Explored on the small records.
Next ==
    \/ \E r \in Rows : CallFreeSlotSize(r)
    \/ \E r \in Rows, s \in SizeInputs : CallSetFreeSlotSize(r, s) /\ DriftBounded'
    \/ \E r \in Rows : CallAllocateSlotInfo(r) /\ DriftBounded'
    \/ \E r \in Rows : CallReleaseSlotInfo(r) /\ DriftBounded'
    \/ CallFirstFreeSlotInfo
    \/ \E m \in MinSizeInputs : CallFindSlot(m)

Spec == InitSmall /\ [][Next]_vars

\* A caller that keeps the preconditions: AllocateSlotInfo on vacant rows,
\* ReleaseSlotInfo on rows in use, SetFreeSlotSize of a size >= 1 on rows
\* in use.  Explored on all the records.
NextProtocol ==
    \/ \E r \in Rows : CallFreeSlotSize(r)
    \/ \E r \in Rows, s \in SizeInputs \ {Zero32} :
           size[r] # Zero32 /\ CallSetFreeSlotSize(r, s)
    \/ \E r \in Rows : size[r] = Zero32 /\ CallAllocateSlotInfo(r)
    \/ \E r \in Rows : size[r] # Zero32 /\ CallReleaseSlotInfo(r)
    \/ CallFirstFreeSlotInfo
    \/ \E m \in MinSizeInputs : CallFindSlot(m)

SpecProtocol == Init /\ [][NextProtocol]_vars

\* The claim protocol: the caller asks FirstFreeSlotInfo for a row and, if
\* it got one, calls AllocateSlotInfo on that row; in between it may call
\* ReleaseSlotInfo on rows in use.
NextClaim ==
    \/ CallFirstFreeSlotInfo
    \/ \E r \in Rows :
           /\ last.op = "FirstFreeSlotInfo"
           /\ last.ret = IntOf(U32(r))
           /\ last.claims < MaxClaims
           /\ CallAllocateSlotInfo(r)
    \/ \E r \in Rows : size[r] # Zero32 /\ CallReleaseSlotInfo(r)

SpecClaim == InitClaim /\ [][NextClaim]_vars

\* The conversion of a row index into an offset, with which
\* AllocateSlotInfo, ReleaseSlotInfo and the scans begin, taken alone.
CallSlotinfoToOffset(i) ==
    /\ constructed
    /\ last' = Call("slotinfoToOffset", i, Zero32,
                    IntOf(U32(slotinfoToOffset(i))))
    /\ UNCHANGED <<header, constructed, dataLen, count, size, loc, maxSlots,
                   maxAcceptableWaste, sizeCache, fresh, written>>

\* The rows whose index is converted: the first rows, and the rows around
\* byte 2^16 of the record.
ConversionRows ==
    {i \in {0, RowLimit - 1, Two16 \div SLOT_INFO_SIZE - 1,
            Two16 \div SLOT_INFO_SIZE, Two16 \div SLOT_INFO_SIZE + 1} :
        i < maxSlots}

\* The large record: a caller that keeps the preconditions on the first
\* rows, and the conversion of the indexes of the first and the last rows.
NextLarge ==
    \/ \E i \in ConversionRows : CallSlotinfoToOffset(i)
    \/ \E r \in Rows : CallFreeSlotSize(r)
    \/ \E r \in Rows, s \in SizeInputs \ {Zero32} :
           size[r] # Zero32 /\ CallSetFreeSlotSize(r, s)
    \/ \E r \in Rows : size[r] = Zero32 /\ CallAllocateSlotInfo(r)
    \/ \E r \in Rows : size[r] # Zero32 /\ CallReleaseSlotInfo(r)

SpecLarge == InitLarge /\ [][NextLarge]_vars

TypeOK ==
    /\ header \in 0 .. Two16 - 1
    /\ constructed \in BOOLEAN
    /\ count \in 0 .. Two16 - 1
    /\ maxSlots \in 0 .. Two16 - 1
    /\ DOMAIN size = 0 .. (dataLen - OFFSET_DATA) \div SLOT_INFO_SIZE - 1
    /\ DOMAIN sizeCache = 0 .. maxSlots - 1
    /\ \A r \in DOMAIN size : size[r] \in UInt32
    /\ \A r \in DOMAIN sizeCache : sizeCache[r] \in UInt32

-----------------------------------------------------------------------------
(* What the claims speak of, read off the record.                          *)

RowSet == 0 .. maxSlots - 1

\* The value of a uint32 below 2^31 as a number.
Nat32(x) == x[1] * Two16 + x[2]

\* The row a non-negative result names.
RowOf(ret) == Nat32(ret.mag)

\* The largest size field of the record.
MaxRowSize ==
    IF RowSet = {} THEN Zero32
    ELSE LET r == CHOOSE x \in RowSet : \A y \in RowSet : Ge32(size[x], size[y])
         IN  size[r]

\* The rows a request of minSize fits in, and the waste it leaves there.
FitRows(minSize) == {r \in RowSet : Ge32(size[r], minSize)}

TrueWaste(r, minSize) == Sub32(size[r], minSize)

OptimalRows(minSize) ==
    {r \in FitRows(minSize) : Lt32(TrueWaste(r, minSize), OptimalWasteMargin32)}

MinWasteRow(minSize) ==
    CHOOSE x \in FitRows(minSize) :
        \A y \in FitRows(minSize) :
            Ge32(TrueWaste(y, minSize), TrueWaste(x, minSize))

\* Some row fits minSize with acceptable waste: within the optimal margin,
\* or with the least waste below maxAcceptableWaste and below
\* MAX_AVAILABLE_SIZE_DIFFERENCE.
AcceptableRowExists(minSize) ==
    \/ OptimalRows(minSize) # {}
    \/ /\ FitRows(minSize) # {}
       /\ Lt32(TrueWaste(MinWasteRow(minSize), minSize), maxAcceptableWaste)
       /\ Lt32(TrueWaste(MinWasteRow(minSize), minSize),
               MaxAvailableSizeDifference32)

VacantRows == {r \in RowSet : size[r] = Zero32}

\* The lowest of the rows that fit minSize with the least waste.
LowestMinWasteRow(minSize) ==
    CHOOSE x \in FitRows(minSize) :
        \A y \in FitRows(minSize) :
            \/ Gt32(TrueWaste(y, minSize), TrueWaste(x, minSize))
            \/ TrueWaste(y, minSize) = TrueWaste(x, minSize) /\ x <= y

\* No call has written to the record since the page was constructed.
NoWriteYet == \A r \in DOMAIN written : written[r].op = "none"

\* FreeSlotCount() is 0 and every row is vacant, as far as the calls show.
ShowsEmptyPage ==
    /\ FreeSlotCount(Page) = 0
    /\ \A r \in RowSet : FreeSlotSizeValue(Page, slotinfoToOffset(r)) = Zero32
    /\ last.op = "FreeSlotSize" => last.ret = IntOf(Zero32)
    /\ last.op = "FirstFreeSlotInfo" => last.ret = IntOf(Zero32)

-----------------------------------------------------------------------------
(* C1 .. C10                                                               *)

\* C1: while the callers keep the preconditions (AllocateSlotInfo on vacant
\* rows, ReleaseSlotInfo on rows in use, SetFreeSlotSize of a size >= 1 on
\* rows in use), FreeSlotCount() equals the number of rows whose size field
\* is not 0.  Checked under SpecProtocol.
C1_CountMatchesRowsInUse == FreeSlotCount(Page) = InUse(size)

C1_Witness ==
    /\ fresh
    /\ last.op = "ReleaseSlotInfo"
    /\ count = 1
    /\ \E r \in RowSet : size[r] = U32(500)

\* C2: whenever FindSlot(minSize) returns a row, the size field of that row
\* is >= minSize.
C2_FoundRowFits ==
    (last.op = "FindSlot" /\ last.found)
        => Ge32(size[RowOf(last.ret)], last.arg)

\* C3: if some row has a size s >= minSize with s - minSize < 128, then
\* FindSlot(minSize) returns a row whose size s' has s' >= minSize and
\* s' - minSize < 128.
C3_OptimalRowReturned ==
    (last.op = "FindSlot" /\ OptimalRows(last.arg) # {})
        => /\ ~last.ret.neg
           /\ RowOf(last.ret) \in OptimalRows(last.arg)

\* C4: if no row fits minSize with acceptable waste, FindSlot(minSize)
\* returns -maxSize, maxSize being the largest size field of the page.
\* (On a page with no row in use that is -0 = 0, which is taken here to
\* meet the claim.)
C4_ExhaustedReturnsMaxSize ==
    (last.op = "FindSlot" /\ ~AcceptableRowExists(last.arg))
        => last.ret = NegInt(MaxRowSize)

\* C5: FreeSlotSize(r) returns the size s of the last SetFreeSlotSize(r, s),
\* for as long as no other write to row r has come since, whatever was
\* done to other rows and whatever scans ran in between.
C5_SetThenGet ==
    (last.op = "FreeSlotSize" /\ written[last.row].op = "SetFreeSlotSize")
        => last.ret = IntOf(written[last.row].val)

C5_Witness ==
    /\ last.op = "FreeSlotSize"
    /\ written[last.row].op = "SetFreeSlotSize"
    /\ written[last.row].val = MaxU32
    /\ last.ret = IntOf(MaxU32)
    /\ \E r \in DOMAIN written : r # last.row /\ written[r].op # "none"

\* C6: every cache entry is 0 or the size field of its row, and
\* FreeSlotSize(r) returns the size field of row r.
C6_CacheCoherent ==
    /\ \A r \in RowSet : sizeCache[r] = Zero32 \/ sizeCache[r] = size[r]
    /\ last.op = "FreeSlotSize" => last.ret = IntOf(size[last.row])

\* A size this page object never wrote is read from the stored record.
C6_Witness ==
    /\ last.op = "FreeSlotSize"
    /\ written[last.row].op = "none"
    /\ last.ret = IntOf(U32(500))
    /\ sizeCache[last.row] = U32(500)
    /\ \E r \in RowSet : written[r].op = "ReleaseSlotInfo"

\* C7 as claimed: AllocateSlotInfo(i) leaves FreeSlotCount() exactly 1
\* above what it was and row i with size 1, and FreeSlotSize of row i
\* returns 1 until SetFreeSlotSize or ReleaseSlotInfo is called on the row.
C7_AllocateAddsOne ==
    /\ last.op = "AllocateSlotInfo"
           => /\ FreeSlotCount(Page) = last.base + 1
              /\ size[last.row] = U32(1)
    /\ (last.op = "FreeSlotSize" /\ written[last.row].op = "AllocateSlotInfo")
           => last.ret = IntOf(U32(1))

\* C7 as amended: the count is a uint16, so AllocateSlotInfo(i) leaves it
\* at (old + 1) mod 2^16: exactly 1 above the old count when that was below
\* 65535, and 0 when it was 65535.  The rest as claimed.
C7_AllocateAddsOneMod16 ==
    /\ last.op = "AllocateSlotInfo"
           => /\ FreeSlotCount(Page) = U16(last.base + 1)
              /\ last.base < Two16 - 1 => FreeSlotCount(Page) = last.base + 1
              /\ last.base = Two16 - 1 => FreeSlotCount(Page) = 0
              /\ size[last.row] = U32(1)
    /\ (last.op = "FreeSlotSize" /\ written[last.row].op = "AllocateSlotInfo")
           => last.ret = IntOf(U32(1))

C7_Witness ==
    /\ last.op = "FreeSlotSize"
    /\ written[last.row].op = "AllocateSlotInfo"
    /\ last.ret = IntOf(U32(1))
    /\ ~fresh
    /\ count = 2

\* C8: AllocateSlotInfo(i) on a vacant row i directly followed by
\* ReleaseSlotInfo(i) leaves FreeSlotCount() at its value before the pair
\* and row i vacant.
C8_AllocateReleaseRestores ==
    (last.op = "ReleaseSlotInfo" /\ last.pair)
        => /\ FreeSlotCount(Page) = last.pbase
           /\ size[last.row] = Zero32
           /\ FreeSlotSizeValue(Page, slotinfoToOffset(last.row)) = Zero32

C8_Witness ==
    /\ last.op = "ReleaseSlotInfo"
    /\ last.pair
    /\ last.pbase = 1
    /\ count = 1

\* C9: FirstFreeSlotInfo() returns the lowest row whose size field is 0,
\* and -1 exactly when every row is in use.
C9_FirstFreeIsLowestVacant ==
    last.op = "FirstFreeSlotInfo"
        => /\ VacantRows # {}
               => /\ ~last.ret.neg
                  /\ RowOf(last.ret) \in VacantRows
                  /\ \A r \in VacantRows : RowOf(last.ret) <= r
           /\ VacantRows = {} => last.ret = NegInt(U32(1))

C9_Witness ==
    /\ last.op = "FirstFreeSlotInfo"
    /\ last.ret = NegInt(U32(1))
    /\ VacantRows = {}
    /\ maxSlots > 0

\* C10 as claimed: ReleaseSlotInfo on a row that is already vacant leaves
\* FreeSlotCount() strictly below the number of rows in use, also when the
\* count was 0 before the call.
C10_ReleaseVacantBelow ==
    (last.op = "ReleaseSlotInfo" /\ last.vac)
        => FreeSlotCount(Page) < InUse(size)

\* C10 as amended: ReleaseSlotInfo on a vacant row leaves the count at
\* (old - 1) mod 2^16.  When the old count was at least 1 and not above the
\* number of rows in use, the new count is strictly below that number; when
\* the old count was 0 the new count is 65535, which is not below it.
C10_ReleaseVacantMod16 ==
    (last.op = "ReleaseSlotInfo" /\ last.vac)
        => /\ FreeSlotCount(Page) = U16(last.base - 1)
           /\ (last.base >= 1 /\ last.base <= InUse(size))
                  => FreeSlotCount(Page) < InUse(size)
           /\ last.base = 0
                  => /\ FreeSlotCount(Page) = Two16 - 1
                     /\ ~(FreeSlotCount(Page) < InUse(size))

C10_Witness ==
    /\ last.op = "ReleaseSlotInfo"
    /\ last.vac
    /\ last.base = 1
    /\ InUse(size) = 1
    /\ count = 0

-----------------------------------------------------------------------------
(* C11 .. C18                                                              *)

\* C11 as claimed: a page constructed over any record with a valid header
\* has FreeSlotCount() = 0 and every row vacant: FreeSlotSize is 0 for every
\* row and FirstFreeSlotInfo() returns row 0.
C11_NewPageEmpty == (constructed /\ NoWriteYet) => ShowsEmptyPage

\* C11 as amended: NewFreePhysicalSlotPage writes nothing to the record.  A
\* page constructed over a record whose count and rows are all zero has
\* FreeSlotCount() = 0 and every row vacant; a page constructed over a
\* record that holds rows shows the count and the rows of that record.
C11_NewPageShowsRecord ==
    /\ (constructed /\ NoWriteYet /\ fresh) => ShowsEmptyPage
    /\ (constructed /\ NoWriteYet /\ ~fresh)
           => /\ FreeSlotCount(Page) = StoredRecord(dataLen).count
              /\ size = StoredRecord(dataLen).size
              /\ last.op = "FreeSlotSize"
                     => last.ret = IntOf(StoredSize(last.row))

C11_Witness ==
    /\ constructed
    /\ fresh
    /\ NoWriteYet
    /\ last.op = "FirstFreeSlotInfo"
    /\ last.ret = IntOf(Zero32)
    /\ \A r \in RowSet : size[r] = Zero32

\* C12: the construction panics and yields no page object exactly when the
\* 16-bit value at offset 0 of the record differs from the tag of a
\* free-physical-slot page; it succeeds exactly when the header matches.
C12_HeaderMismatchPanics ==
    /\ constructed
           <=> ReadInt16(header) = VIEW_PAGE_HEADER + TYPE_FREE_PHYSICAL_SLOT_PAGE
    /\ ~constructed
           => /\ last.op = "NewFreePhysicalSlotPage"
              /\ maxSlots = NoPage.maxSlots
              /\ sizeCache = NoPage.sizeCache

C12_Witness ==
    /\ ~constructed
    /\ header = VIEW_PAGE_HEADER + TYPE_FREE_LOGICAL_SLOT_PAGE
    /\ count # 0

\* C13: when no row fits minSize within the optimal margin, FindSlot(minSize)
\* returns the lowest row of least waste among the rows that fit if that
\* waste is below maxAcceptableWaste and below MAX_AVAILABLE_SIZE_DIFFERENCE,
\* and -maxSize in every other case.
C13_FallbackIffAcceptable ==
    (last.op = "FindSlot" /\ OptimalRows(last.arg) = {})
        => IF /\ FitRows(last.arg) # {}
              /\ Lt32(TrueWaste(LowestMinWasteRow(last.arg), last.arg),
                      maxAcceptableWaste)
              /\ Lt32(TrueWaste(LowestMinWasteRow(last.arg), last.arg),
                      MaxAvailableSizeDifference32)
           THEN last.ret = IntOf(U32(LowestMinWasteRow(last.arg)))
           ELSE last.ret = NegInt(MaxRowSize)

\* C14 as claimed: on a page of any size, a row returned by
\* FindSlot(minSize) has a waste (row size - minSize) below
\* maxAcceptableWaste.
C14_WasteBelowCeiling ==
    (last.op = "FindSlot" /\ last.found)
        => Lt32(TrueWaste(RowOf(last.ret), last.arg), maxAcceptableWaste)

\* C14 as amended: a row returned by FindSlot(minSize) has a waste, taken
\* as (row size - minSize) mod 2^32, below the larger of
\* OPTIMAL_WASTE_MARGIN and maxAcceptableWaste; it is below
\* maxAcceptableWaste on the pages where that is at least
\* OPTIMAL_WASTE_MARGIN (pages of 512 bytes or more).
C14_WasteBelowLargerCeiling ==
    (last.op = "FindSlot" /\ last.found)
        => /\ Lt32(TrueWaste(RowOf(last.ret), last.arg),
                   Max32(OptimalWasteMargin32, maxAcceptableWaste))
           /\ Ge32(maxAcceptableWaste, OptimalWasteMargin32)
                  => Lt32(TrueWaste(RowOf(last.ret), last.arg),
                          maxAcceptableWaste)

\* A row that fits is returned on a small page with a waste of 100 bytes,
\* above the page's maxAcceptableWaste.
C14_Witness ==
    /\ last.op = "FindSlot"
    /\ last.found
    /\ last.arg = U32(400)
    /\ size[RowOf(last.ret)] = U32(500)
    /\ Lt32(maxAcceptableWaste, U32(100))

\* The FindSlot that C15 compares with: the loop of FindSlot with the rows
\* of size < minSize skipped before the waste is computed (maxSize is
\* updated before that, as in FindSlot).
GuardedBody(p, minSize, i, st) ==
    LET slotinfoSize == FreeSlotSizeValue(p, slotinfoToOffset(i))
    IN  IF Lt32(slotinfoSize, minSize)
        THEN [st EXCEPT !.maxSize = Max32(slotinfoSize, st.maxSize)]
        ELSE FindSlotSized(minSize, i, slotinfoSize, st)

RECURSIVE GuardedLoop(_, _, _, _)
GuardedLoop(p, minSize, i, st) ==
    IF st.at # -1 \/ i >= p.maxSlots THEN st
    ELSE GuardedLoop(p, minSize, i + 1, GuardedBody(p, minSize, i, st))

GuardedFindSlot(p, minSize) ==
    FindSlotReturn(p,
        GuardedLoop(p, minSize, 0,
                    [at |-> -1, bestSlot |-> -1,
                     bestSlotWaste |-> Add32(p.maxAcceptableWaste, U32(1)),
                     maxSize |-> Zero32]))

\* C15: on every page whose rows in use have a size >= 1 and for every
\* minSize, FindSlot(minSize) returns what the FindSlot that skips the rows
\* of size < minSize returns on the same page.
C15_GuardedFindSlotEquivalent ==
    [][last'.op = "FindSlot"
          => last'.ret = GuardedFindSlot(Page, last'.arg).ret]_vars

\* C16: under the claim protocol on a page that was constructed empty,
\* FreeSlotCount() never exceeds MaxSlots(), AllocateSlotInfo is never
\* called on a row in use, FirstFreeSlotInfo() returns -1 exactly when
\* FreeSlotCount() = MaxSlots(), and as long as nothing was released the
\* count is the number of claims made, so that the page is full after
\* exactly MaxSlots() claims.  Checked under SpecClaim.
C16_ClaimProtocol ==
    /\ FreeSlotCount(Page) <= maxSlots
    /\ last.op = "AllocateSlotInfo" => last.vac
    /\ last.op = "FirstFreeSlotInfo"
           => (last.ret = NegInt(U32(1)) <=> FreeSlotCount(Page) = maxSlots)
    /\ constructed
           => (FirstFreeSlotInfo(Page).ret = NegInt(U32(1))
                   <=> FreeSlotCount(Page) = maxSlots)
    /\ (constructed /\ last.releases = 0)
           => /\ FreeSlotCount(Page) = last.claims
              /\ VacantRows = {} <=> last.claims = maxSlots

C16_Witness ==
    /\ last.op = "FirstFreeSlotInfo"
    /\ last.ret = NegInt(U32(1))
    /\ last.releases = 0
    /\ last.claims = maxSlots
    /\ maxSlots = RowLimit
    /\ VacantRows = {}

\* What the callers can see of a page p: its record, and what FreeSlotSize
\* returns for every row.
Visible(p) ==
    [count |-> p.count, size |-> p.size, loc |-> p.loc,
     sizes |-> [r \in DOMAIN p.sizeCache |->
                   FreeSlotSizeValue(p, slotinfoToOffset(r))]]

\* The result of every call the callers of the model can make on p, and for
\* the calls that write, what the callers can see of the page they leave.
Observed(p) ==
    [FreeSlotCount     |-> FreeSlotCount(p),
     FreeSlotSize      |-> [r \in Rows |->
                               FreeSlotSize(p, slotinfoToOffset(r)).ret],
     FirstFreeSlotInfo |-> FirstFreeSlotInfo(p).ret,
     FindSlot          |-> [m \in MinSizeInputs |-> FindSlot(p, m).ret],
     SetFreeSlotSize   |-> [r \in Rows |-> [s \in SizeInputs |->
                               Visible(SetFreeSlotSize(p, slotinfoToOffset(r),
                                                       s))]],
     AllocateSlotInfo  |-> [r \in Rows |-> Visible(AllocateSlotInfo(p, r).page)],
     ReleaseSlotInfo   |-> [r \in Rows |-> Visible(ReleaseSlotInfo(p, r).page)]]

\* The page object a new construction on the same record would give.
ColdPage == [Page EXCEPT !.sizeCache = [r \in DOMAIN sizeCache |-> Zero32]]

ReadCalls == {"FindSlot", "FirstFreeSlotInfo", "FreeSlotSize"}

\* C17: FindSlot, FirstFreeSlotInfo and FreeSlotSize leave the count and
\* the size and location of every row as they were, and change a cache
\* entry only from 0 to the size field of its row.  FindSlot(minSize) called
\* again returns the same value.  What the cache holds changes no result:
\* in every state, every call returns, and leaves visible, what it would on
\* a page object with an empty cache on the same record, so that a call
\* gives the same results with or without reads before it.  Checked under
\* SpecProtocol.
C17_ReadsChangeNoResult ==
    /\ [][last'.op \in ReadCalls
              => /\ count' = count /\ size' = size /\ loc' = loc
                 /\ \A r \in DOMAIN sizeCache :
                        \/ sizeCache'[r] = sizeCache[r]
                        \/ sizeCache[r] = Zero32 /\ sizeCache'[r] = size[r]
                 /\ last'.op = "FindSlot"
                        => FindSlot(Page', last'.arg).ret = last'.ret]_vars
    /\ [](Observed(Page) = Observed(ColdPage))

\* FindSlot(40) has returned row 2 of the stored record of 600 bytes: it
\* has filled the cache entries of the rows up to row 2 and not that of
\* row 3.
C17_Witness ==
    /\ last.op = "FindSlot"
    /\ last.arg = U32(40)
    /\ last.ret = IntOf(U32(2))
    /\ maxSlots > 3
    /\ sizeCache[1] = U32(500) /\ sizeCache[2] = U32(50)
    /\ sizeCache[3] = Zero32 /\ size[3] = U32(200)

WriteCalls == {"SetFreeSlotSize", "AllocateSlotInfo", "ReleaseSlotInfo"}

\* C18: AllocateSlotInfo(i), ReleaseSlotInfo(i) and SetFreeSlotSize(offset
\* of i, s) leave the size, the location and the cache entry of every row
\* j # i as they were, SetFreeSlotSize leaves the count as it was, and for
\* every row i < MaxSlots the offset of row i converts back to i.
C18_WritesTouchOneRow ==
    /\ [][last'.op \in WriteCalls
              => /\ \A j \in RowSet \ {last'.row} :
                        /\ size'[j] = size[j]
                        /\ loc'[j] = loc[j]
                        /\ sizeCache'[j] = sizeCache[j]
                 /\ last'.op = "SetFreeSlotSize" => count' = count]_vars
    /\ [](last.op = "slotinfoToOffset"
              => offsetToSlotinfo(Nat32(last.ret.mag)) = last.row)
    /\ [](\A i \in RowSet : offsetToSlotinfo(slotinfoToOffset(i)) = i)

====
